---- MODULE Spec2Model ----
(***************************************************************************)
(* Model of the AI-OS agent daemon (core/services/aios-agent/agent.h):     *)
(* the listener, the per-connection handler threads, the shared            *)
(* conversation history guarded by g_history_mutex, the provider call, the *)
(* local fallback interpreter and the action dispatcher; and of the        *)
(* hardware abstraction layer it calls (hal.c, kept in                     *)
(* core/services/aios-display/display.h).                                  *)
(***************************************************************************)
EXTENDS Integers, Sequences, FiniteSets, TLC

(* ------------------------------ constants ------------------------------ *)

MAX_MESSAGE_SIZE == 65536
MAX_HISTORY_SIZE == 20

(* ------------------------------- bounds -------------------------------- *)

\* number of client connections that may be opened during a run
NumConns == 2
\* number of frames the handlers read during a run, over all connections
MaxFrames == 2
\* the store starts as left by up to MaxPriorChats earlier sequential chats
MaxPriorChats == 10

Conns == 1..NumConns

(* ------------------------------- cJSON --------------------------------- *)
\* A cJSON item is a tagged record; NoItem is the C NULL pointer that
\* cJSON_GetObjectItem returns for a missing key or a non-object parent.

JStr(s) == [t |-> "str", v |-> s]
JNum(n) == [t |-> "num", v |-> n]
JBool(b) == [t |-> "bool", v |-> b]
JObj(r) == [t |-> "obj", v |-> r]
NoItem == [t |-> "NULL"]
\* the outcome of cJSON_Parse on text that is not JSON
ParseFail == [t |-> "invalid"]

cJSON_GetObjectItem(obj, key) ==
    IF obj.t = "obj" /\ key \in DOMAIN obj.v THEN obj.v[key] ELSE NoItem

\* item && item->valuestring
HasString(item) == item.t = "str"

\* item->valueint: the number for a number item, 0 for every other item
valueint(item) == IF item.t = "num" THEN item.v ELSE 0

\* cJSON_IsTrue accepts NULL and yields false for it
cJSON_IsTrue(item) == item.t = "bool" /\ item.v = TRUE

(* -------------------------------- HAL ---------------------------------- *)
\* The device behind the hardware abstraction layer (hal.c, kept in
\* aios-display/display.h): the backlight in sysfs with its raw brightness
\* value and its max_brightness, the mixer, the radios.  ok tells whether
\* the device is found and the command run for the call succeeds.

\* max_brightness of the backlights a run may have
BacklightMax == {255, 7}

HalInit(max) ==
    [brightness |-> max \div 2, max_brightness |-> max, volume |-> 50, muted |-> FALSE,
     wifi |-> TRUE, bluetooth |-> FALSE]

\* the device with its backlight and its mixer at level per cent
HalAt(max, level) ==
    [HalInit(max) EXCEPT !.brightness = (max * level) \div 100, !.volume = level]

\* hal_brightness_set without the test of line 541
Clamp100_open(n) == IF n < 0 THEN 0 ELSE n

\* lines 540-541 and 572-573: if (level < 0) level = 0; if (level > 100) level = 100;
Clamp100(n) == IF n < 0 THEN 0 ELSE IF n > 100 THEN 100 ELSE n

HalCall(fn, arg, ret) == [fn |-> fn, arg |-> arg, ret |-> ret]

\* int hal_brightness_set(int level): value = (max * level) / 100 is written
hal_brightness_set(dev, level, ok) ==
    IF ok THEN [dev |-> [dev EXCEPT !.brightness = (dev.max_brightness * Clamp100(level)) \div 100],
                ret |-> 0]
          ELSE [dev |-> dev, ret |-> -1]

\* int hal_volume_set(int level): amixer set Master level%
hal_volume_set(dev, level, ok) ==
    IF ok THEN [dev |-> [dev EXCEPT !.volume = Clamp100(level)], ret |-> 0]
          ELSE [dev |-> dev, ret |-> -1]

hal_mute_set(dev, m, ok) ==
    IF ok THEN [dev |-> [dev EXCEPT !.muted = m], ret |-> 0]
          ELSE [dev |-> dev, ret |-> -1]

hal_wifi_set(dev, e, ok) ==
    IF ok THEN [dev |-> [dev EXCEPT !.wifi = e], ret |-> 0]
          ELSE [dev |-> dev, ret |-> -1]

hal_bluetooth_set(dev, e, ok) ==
    IF ok THEN [dev |-> [dev EXCEPT !.bluetooth = e], ret |-> 0]
          ELSE [dev |-> dev, ret |-> -1]

\* int hal_brightness_get(void): (current * 100) / max, -1 on error
hal_brightness_get(dev, ok) ==
    IF ok THEN (dev.brightness * 100) \div dev.max_brightness ELSE -1

hal_volume_get(dev, ok) == IF ok THEN dev.volume ELSE -1

\* int hal_battery_get(battery_info_t *info) and int hal_system_info(
\* system_info_t *info) return 0 for every non-null info
hal_battery_get == 0
hal_system_info == 0

(* --------------------------- action dispatcher ------------------------- *)

Msg(fmt, arg) == [fmt |-> fmt, arg |-> arg]
NoArg == JStr("")
\* action_result_t result = {0}
ZeroResult == [success |-> FALSE, message |-> Msg("", NoArg), data |-> FALSE]
\* lines 401-402 with the result preset to success
DefaultResult_true == [success |-> TRUE, message |-> Msg("Unknown action", NoArg), data |-> FALSE]

\* agent_execute_action lines 401-403: the result before any branch runs
DefaultResult == [success |-> FALSE, message |-> Msg("Unknown action", NoArg), data |-> FALSE]

\* lines 457 and 462: system("shutdown -h +1 &"), system("shutdown -r +1 &")
ShutdownDelay == 1

\* system("shutdown -h now &"): a command without delay
Job_now(cmd) == [cmd |-> cmd, delay |-> 0, fired |-> FALSE]

\* a command handed to system(): what it does, the minutes left until then,
\* and whether it has taken effect
Job(cmd) == [cmd |-> cmd, delay |-> ShutdownDelay, fired |-> FALSE]

\* what one run of agent_execute_action leaves behind: its return value, the
\* result structure, the HAL calls it made, the device, the shell commands
ExecOut(ret, result, calls, dev, sys) ==
    [ret |-> ret, result |-> result, calls |-> calls, dev |-> dev, sys |-> sys]

\* int agent_execute_action(const char *action_json, action_result_t *result)
\* json is the outcome of cJSON_Parse(action_json); ok is whether the HAL
\* call made, if any, succeeds.
agent_execute_action(json, dev, ok) ==
    LET action == cJSON_GetObjectItem(json, "action")
        act == action.v
        level == cJSON_GetObjectItem(json, "level")
        muted == cJSON_GetObjectItem(json, "muted")
        enabled == cJSON_GetObjectItem(json, "enabled")
        app == cJSON_GetObjectItem(json, "app")
        m == IF muted # NoItem THEN cJSON_IsTrue(muted) ELSE TRUE
        hret == IF ok THEN 0 ELSE -1
    IN  IF json = ParseFail THEN ExecOut(-1, DefaultResult, <<>>, dev, <<>>)
        ELSE IF ~HasString(action) THEN ExecOut(-1, DefaultResult, <<>>, dev, <<>>)
        ELSE IF act = "brightness" THEN
            IF level # NoItem
            THEN LET h == hal_brightness_set(dev, valueint(level), ok)
                 IN  ExecOut(0, [success |-> (h.ret = 0),
                                 message |-> Msg("Brightness set to %d%%", JNum(valueint(level))),
                                 data |-> FALSE],
                             <<HalCall("hal_brightness_set", JNum(valueint(level)), h.ret)>>,
                             h.dev, <<>>)
            ELSE ExecOut(0, DefaultResult, <<>>, dev, <<>>)
        ELSE IF act = "volume" THEN
            IF level # NoItem
            THEN LET h == hal_volume_set(dev, valueint(level), ok)
                 IN  ExecOut(0, [success |-> (h.ret = 0),
                                 message |-> Msg("Volume set to %d%%", JNum(valueint(level))),
                                 data |-> FALSE],
                             <<HalCall("hal_volume_set", JNum(valueint(level)), h.ret)>>,
                             h.dev, <<>>)
            ELSE ExecOut(0, DefaultResult, <<>>, dev, <<>>)
        ELSE IF act = "mute" THEN
            LET h == hal_mute_set(dev, m, ok)
            IN  ExecOut(0, [success |-> TRUE,
                            message |-> Msg(IF m THEN "Muted" ELSE "Unmuted", NoArg),
                            data |-> FALSE],
                        <<HalCall("hal_mute_set", JBool(m), h.ret)>>, h.dev, <<>>)
        ELSE IF act = "wifi" THEN
            LET h == hal_wifi_set(dev, cJSON_IsTrue(enabled), ok)
            IN  ExecOut(0, [success |-> TRUE,
                            message |-> Msg(IF cJSON_IsTrue(enabled) THEN "WiFi enabled"
                                            ELSE "WiFi disabled", NoArg),
                            data |-> FALSE],
                        <<HalCall("hal_wifi_set", JBool(cJSON_IsTrue(enabled)), h.ret)>>,
                        h.dev, <<>>)
        ELSE IF act = "bluetooth" THEN
            LET h == hal_bluetooth_set(dev, cJSON_IsTrue(enabled), ok)
            IN  ExecOut(0, [success |-> TRUE,
                            message |-> Msg(IF cJSON_IsTrue(enabled) THEN "Bluetooth enabled"
                                            ELSE "Bluetooth disabled", NoArg),
                            data |-> FALSE],
                        <<HalCall("hal_bluetooth_set", JBool(cJSON_IsTrue(enabled)), h.ret)>>,
                        h.dev, <<>>)
        ELSE IF act = "shutdown" THEN
            ExecOut(0, [success |-> TRUE, message |-> Msg("Shutting down...", NoArg),
                        data |-> FALSE],
                    <<>>, dev, <<Job("shutdown -h")>>)
        ELSE IF act = "reboot" THEN
            ExecOut(0, [success |-> TRUE, message |-> Msg("Rebooting...", NoArg),
                        data |-> FALSE],
                    <<>>, dev, <<Job("shutdown -r")>>)
        ELSE IF act = "suspend" THEN
            ExecOut(0, [success |-> TRUE, message |-> Msg("Suspended", NoArg),
                        data |-> FALSE],
                    <<HalCall("hal_suspend", NoArg, hret)>>, dev, <<>>)
        ELSE IF act = "launch" THEN
            IF HasString(app)
            THEN ExecOut(0, [success |-> ok,
                             message |-> Msg(IF ok THEN "Launched %s" ELSE "Failed to launch %s",
                                             app),
                             data |-> FALSE],
                         <<HalCall("hal_app_launch", app, hret)>>, dev, <<>>)
            ELSE ExecOut(0, DefaultResult, <<>>, dev, <<>>)
        ELSE IF act = "info" THEN
            ExecOut(0, [success |-> TRUE, message |-> Msg("System info retrieved", NoArg),
                        data |-> TRUE],
                    <<HalCall("hal_system_info", NoArg, hal_system_info)>>, dev, <<>>)
        ELSE ExecOut(0, DefaultResult, <<>>, dev, <<>>)

(* ------------------------------ reply text ----------------------------- *)
\* A reply (ai_response) is a sequence of segments: plain text without
\* braces, the text of one JSON object, or a lone brace.  len is the number
\* of characters of the segment.

Txt(s) == [k |-> "txt", s |-> s, len |-> 24]
LongTxt(s) == [k |-> "txt", s |-> s, len |-> 1100]
ObjSeg(r) == [k |-> "obj", o |-> JObj(r), len |-> 40]
OpenBrace == [k |-> "open", len |-> 8]
CloseBrace == [k |-> "close", len |-> 8]
NoFrag == [t |-> "nofrag"]

HasOpen(seg) == seg.k \in {"obj", "open"}
HasClose(seg) == seg.k \in {"obj", "close"}

RECURSIVE SpanLen(_, _, _)
SpanLen(reply, i, j) == IF i > j THEN 0 ELSE reply[i].len + SpanLen(reply, i + 1, j)

\* agent_chat lines 520-531: the text from the first '{' to the last '}' is
\* copied when shorter than action_json[1024] and handed to cJSON_Parse,
\* which reads the first JSON value and ignores what follows it.
ExtractAction(reply) ==
    LET opens == {i \in 1..Len(reply) : HasOpen(reply[i])}
        closes == {i \in 1..Len(reply) : HasClose(reply[i])}
    IN  IF opens = {} \/ closes = {} THEN NoFrag
        ELSE LET js == CHOOSE i \in opens : \A j \in opens : i <= j
                 je == CHOOSE i \in closes : \A j \in closes : i >= j
             IN  IF je < js THEN NoFrag
                 ELSE IF SpanLen(reply, js, je) >= 1024 THEN NoFrag
                 ELSE IF reply[js].k = "obj" THEN reply[js].o
                 ELSE ParseFail

(* ---------------------- local fallback interpreter --------------------- *)
\* An input text is a sequence of words.  Sub(w) is the set of keywords of
\* process_local_fallback that occur inside the word w (strstr).

Lower(w) ==
    CASE w = "Brightness" -> "brightness"
      [] w = "WIFI" -> "wifi"
      [] OTHER -> w

Keywords ==
    {"brightness", "up", "increase", "down", "decrease", "volume", "mute",
     "battery", "time", "clock", "date", "shutdown", "reboot", "restart",
     "wifi", "on", "off", "enable", "disable"}

Sub(w) ==
    CASE w = "shutdown" -> {"shutdown", "down"}
      [] w = "update" -> {"up", "date"}
      [] w = "connection" -> {"on"}
      [] w \in Keywords -> {w}
      [] OTHER -> {}

strstr(text, kw) ==
    IF kw = "power off"
    THEN \E i \in 1..(Len(text) - 1) : Lower(text[i]) = "power" /\ Lower(text[i + 1]) = "off"
    ELSE \E i \in 1..Len(text) : kw \in Sub(Lower(text[i]))

IsNumber(w) == w \in {"80", "150", "5"}
NumVal(w) == CASE w = "80" -> 80 [] w = "150" -> 150 [] w = "5" -> 5 [] OTHER -> 0

\* sscanf(lower, "%*[^0-9]%d", &level) with level preset to -1: the scanset
\* must consume at least one character, then the first run of digits is read
sscanf_level(text) ==
    LET nums == {i \in 1..Len(text) : IsNumber(text[i])}
    IN  IF nums = {} \/ 1 \in nums THEN -1
        ELSE NumVal(text[CHOOSE i \in nums : \A j \in nums : i <= j])

\* the word "pad255" stands for 255 characters without keyword or digit:
\* a text that holds it has 255 characters or more
Fits(input) == \A i \in 1..Len(input) : input[i] # "pad255"

\* line 323: strncpy(lower, input, sizeof(lower) - 1) copies the first 255
\* characters and writes no terminator unless the input is shorter
strncpy(input) ==
    IF Fits(input) THEN input
    ELSE SubSeq(input, 1, CHOOSE i \in 1..Len(input) :
                             input[i] = "pad255" /\ \A j \in 1..(i - 1) : input[j] # "pad255")

Capabilities ==
    <<Txt("I can help with: brightness, volume, battery, time, date, wifi, shutdown, reboot")>>

FbOut(reply, calls, dev) == [reply |-> reply, calls |-> calls, dev |-> dev]

\* static int process_local_fallback(const char *input, char *response, size_t)
\* getOk, setOk: whether the HAL get call and the HAL set call succeed.
\* The text in lower is taken to end where the copy ends.
process_local_fallback(input, dev, getOk, setOk) ==
    LET lower == strncpy(input) IN
        IF strstr(lower, "brightness") THEN
            LET rel == strstr(lower, "up") \/ strstr(lower, "increase")
                       \/ strstr(lower, "down") \/ strstr(lower, "decrease")
                cur == hal_brightness_get(dev, getOk)
                level == IF strstr(lower, "up") \/ strstr(lower, "increase") THEN cur + 20
                         ELSE IF strstr(lower, "down") \/ strstr(lower, "decrease") THEN cur - 20
                         ELSE sscanf_level(lower)
                gets == IF rel THEN <<HalCall("hal_brightness_get", NoArg, cur)>> ELSE <<>>
                lv == IF level > 100 THEN 100 ELSE level
                h == hal_brightness_set(dev, lv, setOk)
            IN  IF level >= 0
                THEN FbOut(<<ObjSeg([action |-> JStr("brightness"), level |-> JNum(lv)])>>,
                           gets \o <<HalCall("hal_brightness_set", JNum(lv), h.ret)>>, h.dev)
                ELSE FbOut(Capabilities, gets, dev)
        ELSE IF strstr(lower, "volume") THEN
            LET rel == strstr(lower, "up") \/ strstr(lower, "down")
                cur == hal_volume_get(dev, getOk)
                level == IF strstr(lower, "up") THEN cur + 10
                         ELSE IF strstr(lower, "down") THEN cur - 10
                         ELSE sscanf_level(lower)
                gets == IF rel THEN <<HalCall("hal_volume_get", NoArg, cur)>> ELSE <<>>
                lv == IF level > 100 THEN 100 ELSE level
                h == hal_volume_set(dev, lv, setOk)
                hm == hal_mute_set(dev, TRUE, setOk)
            IN  IF ~rel /\ strstr(lower, "mute")
                THEN FbOut(<<ObjSeg([action |-> JStr("mute"), muted |-> JBool(TRUE)])>>,
                           <<HalCall("hal_mute_set", JBool(TRUE), hm.ret)>>, hm.dev)
                ELSE IF level >= 0
                THEN FbOut(<<ObjSeg([action |-> JStr("volume"), level |-> JNum(lv)])>>,
                           gets \o <<HalCall("hal_volume_set", JNum(lv), h.ret)>>, h.dev)
                ELSE FbOut(Capabilities, gets, dev)
        ELSE IF strstr(lower, "battery") THEN
            FbOut(<<Txt("Battery: %d%%, Status: %s")>>,
                  <<HalCall("hal_battery_get", NoArg, hal_battery_get)>>, dev)
        ELSE IF strstr(lower, "time") \/ strstr(lower, "clock") THEN
            FbOut(<<Txt("The time is %H:%M:%S")>>, <<>>, dev)
        ELSE IF strstr(lower, "date") THEN
            FbOut(<<Txt("Today is %A, %B %d, %Y")>>, <<>>, dev)
        ELSE IF strstr(lower, "shutdown") \/ strstr(lower, "power off") THEN
            FbOut(<<ObjSeg([action |-> JStr("shutdown")])>>, <<>>, dev)
        ELSE IF strstr(lower, "reboot") \/ strstr(lower, "restart") THEN
            FbOut(<<ObjSeg([action |-> JStr("reboot")])>>, <<>>, dev)
        ELSE IF strstr(lower, "wifi") THEN
            LET enable == strstr(lower, "on") \/ strstr(lower, "enable")
                disable == strstr(lower, "off") \/ strstr(lower, "disable")
                h == hal_wifi_set(dev, enable, setOk)
            IN  IF enable \/ disable
                THEN FbOut(<<ObjSeg([action |-> JStr("wifi"), enabled |-> JBool(enable)])>>,
                           <<HalCall("hal_wifi_set", JBool(enable), h.ret)>>, h.dev)
                ELSE FbOut(Capabilities, <<>>, dev)
        ELSE FbOut(Capabilities, <<>>, dev)

(* --------------------------- provider client --------------------------- *)
\* What the network gives back to one curl_easy_perform: the CURLcode, the
\* HTTP status, and the body.  content is choices[0].message.content of the
\* body: a reply, or NoItem when the body has no such string.

Outcome(res, http, body, content) ==
    [res |-> res, http |-> http, body |-> body, content |-> content]

\* static int call_openai(...), lines 284-318: the return value and what is
\* left in the response buffer, which agent_chat zeroed before the call
call_openai(net) ==
    IF net.res # "CURLE_OK" THEN [ret |-> -1, response |-> <<>>]
    ELSE IF net.body = "unparseable" THEN [ret |-> -1, response |-> <<>>]
    ELSE IF net.content.t = "reply" THEN [ret |-> 0, response |-> net.content.v]
    ELSE [ret |-> 0, response |-> <<>>]

\* agent_chat line 506: the provider is called only for OpenAI with a key
UsesProvider(cfg) == cfg.provider = "AI_PROVIDER_OPENAI" /\ cfg.openai_api_key

(* --------------------------- configuration ----------------------------- *)
\* static int load_config(void): whether each environment variable is set
\* and non-empty, the "provider" string of agent.json, and its
\* "confirm_dangerous" item ("absent", "true" or "false")
load_config(envOpenai, envAnthropic, file, fileConfirm) ==
    LET p0 == "AI_PROVIDER_LOCAL"
        p1 == IF envOpenai THEN "AI_PROVIDER_OPENAI" ELSE p0
        p2 == IF envAnthropic /\ p1 = "AI_PROVIDER_LOCAL" THEN "AI_PROVIDER_ANTHROPIC" ELSE p1
        p3 == IF file = "openai" THEN "AI_PROVIDER_OPENAI"
              ELSE IF file = "anthropic" THEN "AI_PROVIDER_ANTHROPIC" ELSE p2
    IN  [provider |-> p3, openai_api_key |-> envOpenai,
         anthropic_api_key |-> envAnthropic,
         confirm_dangerous |-> IF fileConfirm = "absent" THEN TRUE ELSE fileConfirm = "true"]

Configs ==
    {load_config(FALSE, FALSE, "none", "absent"), load_config(TRUE, FALSE, "none", "absent"),
     load_config(FALSE, TRUE, "none", "absent"), load_config(FALSE, FALSE, "openai", "absent"),
     load_config(FALSE, FALSE, "none", "false")}

(* -------------------------- conversation store ------------------------- *)

Turn(role, content) == [role |-> role, content |-> content]

\* agent_chat line 536: if (g_history_count >= MAX_HISTORY_SIZE)
NeedEvict(count) == count >= MAX_HISTORY_SIZE

\* the test of line 545 written with <= : one turn too many fits
RoomForAssistant_le(count) == count <= MAX_HISTORY_SIZE

\* agent_chat line 545: if (g_history_count < MAX_HISTORY_SIZE)
RoomForAssistant(count) == count < MAX_HISTORY_SIZE

\* lines 537-539 dropping the newest turn in place of the oldest
Evict_last(h) == IF NeedEvict(Len(h)) THEN SubSeq(h, 1, Len(h) - 1) ELSE h

\* lines 537-539: free the first turn, memmove the rest down, count--
Evict(h) == IF NeedEvict(Len(h)) THEN Tail(h) ELSE h
\* lines 541-543
AddUser(h, input) == Append(h, Turn("user", input))
\* lines 545-549
AddAssistant(h, reply) ==
    IF RoomForAssistant(Len(h)) THEN Append(h, Turn("assistant", reply)) ELSE h

\* the whole critical section of agent_chat, lines 535-550
AppendTurns(h, input, reply) == AddAssistant(AddUser(Evict(h), input), reply)

PriorText == <<"hello">>

\* the store after k sequential chats "hello" answered by the fallback
RECURSIVE PriorHistory(_)
PriorHistory(k) ==
    IF k = 0 THEN <<>>
    ELSE AppendTurns(PriorHistory(k - 1), PriorText,
                     process_local_fallback(PriorText, HalInit(255), TRUE, TRUE).reply)

\* empty, or as the last two of these chats leave it (18 and 20 turns when
\* MaxPriorChats is 10)
PriorChoices == {0} \cup {k \in 1..MaxPriorChats : k >= MaxPriorChats - 1}

(* ------------------------------- framing ------------------------------- *)
\* A frame as the client puts it on the wire: the bytes of the length
\* header that arrive, whether the whole body arrives, and what cJSON_Parse
\* makes of the body.

Frame(hdr, complete, payload) == [hdr |-> hdr, complete |-> complete, payload |-> payload]
NoFrame == Frame(<<>>, FALSE, ParseFail)

\* ntohl: the four bytes read as a big-endian 32-bit number
ntohl(hdr) == hdr[1] * 16777216 + hdr[2] * 65536 + hdr[3] * 256 + hdr[4]
\* the same four bytes as the little-endian host holds them before ntohl
RawLength(hdr) == hdr[4] * 16777216 + hdr[3] * 65536 + hdr[2] * 256 + hdr[1]

\* the test of line 567 made before the ntohl of line 565
TooLong_raw(hdr) == RawLength(hdr) > MAX_MESSAGE_SIZE
\* client_handler lines 565-567: length = ntohl(length); if (length > MAX_MESSAGE_SIZE) break;
TooLong(hdr) == ntohl(hdr) > MAX_MESSAGE_SIZE

(* ------------------------- what clients send --------------------------- *)

Texts ==
    {<<"set", "Brightness", "to", "80">>, <<"brightness", "up">>,
     <<"what", "time">>, <<"mute", "volume">>, <<"shutdown">>,
     <<"pad255", "what", "time">>}

ChatOf(t) == JObj([cmd |-> JStr("chat"), text |-> JStr(t)])

\* chats that go through every provider outcome and every HAL outcome
ProviderPayloads == {ChatOf(t) : t \in Texts}

\* chats and clear as they race for the conversation store
ChatPayloads ==
    {ChatOf(<<"set", "Brightness", "to", "80">>), ChatOf(<<"what", "time">>),
     JObj([cmd |-> JStr("clear")])}

Intents ==
    {JObj([action |-> JStr("brightness"), level |-> JNum(80)]),
     JObj([action |-> JStr("brightness"), level |-> JNum(150)]),
     JObj([action |-> JStr("brightness"), level |-> JNum(-5)]),
     JObj([action |-> JStr("brightness")]),
     JObj([action |-> JStr("volume")]),
     JObj([action |-> JStr("mute")]),
     JObj([action |-> JStr("mute"), muted |-> JBool(FALSE)]),
     JObj([action |-> JStr("wifi")]),
     JObj([action |-> JStr("wifi"), enabled |-> JBool(TRUE)]),
     JObj([action |-> JStr("bluetooth")]),
     JObj([action |-> JStr("suspend")]),
     JObj([action |-> JStr("launch")]),
     JObj([action |-> JStr("launch"), app |-> JStr("terminal")]),
     JObj([action |-> JStr("shutdown")]),
     JObj([action |-> JStr("reboot")]),
     JObj([action |-> JStr("info")]),
     JObj([action |-> JStr("unknown_xyz")]),
     JObj([name |-> JStr("unknown_xyz")]),
     JStr("brightness")}

ActionPayloads == {JObj([cmd |-> JStr("action"), action |-> a]) : a \in Intents}

ProtocolPayloads ==
    {ParseFail,
     JObj([text |-> JStr(<<"hello">>)]),
     JObj([cmd |-> JNum(1)]),
     JObj([cmd |-> JStr("chat")]),
     JObj([cmd |-> JStr("action")]),
     JObj([cmd |-> JStr("restart")])}

PaddedStatus == JObj([cmd |-> JStr("status"), pad |-> JStr("...")])

\* frames that break the framing, or sit on its boundary
ProtocolFrames ==
    {Frame(<<>>, FALSE, ParseFail), Frame(<<0, 0>>, FALSE, ParseFail),
     Frame(<<0, 1, 0, 1>>, TRUE, PaddedStatus),
     Frame(<<1, 0, 0, 0>>, TRUE, PaddedStatus),
     Frame(<<127, 255, 255, 127>>, TRUE, PaddedStatus),
     Frame(<<0, 1, 0, 0>>, TRUE, PaddedStatus),
     Frame(<<0, 0, 0, 0>>, TRUE, ParseFail),
     Frame(<<0, 0, 0, 16>>, FALSE, JObj([cmd |-> JStr("status")]))}
    \cup {Frame(<<0, 0, 0, 40>>, TRUE, p) : p \in ProtocolPayloads}

\* clear, status and a chat on one connection
StorePayloads ==
    {JObj([cmd |-> JStr("clear")]), JObj([cmd |-> JStr("status")]),
     ChatOf(<<"what", "time">>)}

\* relative adjustments of the backlight and of the mixer
AdjustTexts ==
    {<<"brightness", "up">>, <<"brightness", "down">>, <<"volume", "up">>, <<"volume", "down">>}

\* the levels at which a run of relative adjustments may start
StartLevels == {5, 90}

\* a chat that goes to the provider, and clear, on several connections
RacePayloads == {ChatOf(<<"what", "time">>), JObj([cmd |-> JStr("clear")])}

\* The traffic of one run is drawn from one family of requests: chats on
\* a store that is empty or nearly full, chats with every provider outcome,
\* action requests, commands on the store, relative adjustments, provider
\* chats racing with clear, or frames that break the protocol.
FramesOf(fam) ==
    CASE fam = "chat" -> {Frame(<<0, 0, 0, 40>>, TRUE, p) : p \in ChatPayloads}
      [] fam = "provider" -> {Frame(<<0, 0, 0, 40>>, TRUE, p) : p \in ProviderPayloads}
      [] fam = "action" -> {Frame(<<0, 0, 0, 40>>, TRUE, p) : p \in ActionPayloads}
      [] fam = "store" -> {Frame(<<0, 0, 0, 40>>, TRUE, p) : p \in StorePayloads}
      [] fam = "adjust" -> {Frame(<<0, 0, 0, 40>>, TRUE, ChatOf(t)) : t \in AdjustTexts}
      [] fam = "race" -> {Frame(<<0, 0, 0, 40>>, TRUE, p) : p \in RacePayloads}
      [] OTHER -> ProtocolFrames \cup {Frame(<<0, 0, 0, 40>>, TRUE, JObj([cmd |-> JStr("status")]))}

\* what the network can hand back to one provider call
AllNetOutcomes ==
    {Outcome("CURLE_OPERATION_TIMEDOUT", 0, "none", NoItem),
     Outcome("CURLE_OK", 500, "unparseable", NoItem),
     Outcome("CURLE_OK", 401, "json", NoItem),
     Outcome("CURLE_OK", 200, "json", NoItem),
     Outcome("CURLE_OK", 200, "json",
             [t |-> "reply", v |-> <<Txt("Sure."), ObjSeg([action |-> JStr("wifi"), enabled |-> JBool(FALSE)])>>]),
     Outcome("CURLE_OK", 200, "json", [t |-> "reply", v |-> <<Txt("Hello!")>>]),
     Outcome("CURLE_OK", 200, "json", [t |-> "reply", v |-> <<ObjSeg([action |-> JStr("info")])>>]),
     Outcome("CURLE_OK", 200, "json", [t |-> "reply", v |-> <<OpenBrace, Txt("oops"), CloseBrace>>])}

NetOutcomes(fam) ==
    IF fam = "provider" THEN AllNetOutcomes
    ELSE {n \in AllNetOutcomes : n.res # "CURLE_OK" \/ (n.http = 200 /\ n.content.t = "reply"
                                                          /\ Len(n.content.v) = 2)}

LocalConfig == load_config(FALSE, FALSE, "none", "absent")

\* whether HAL calls and allocations may fail in a run of the family
Faults(fam) == IF fam \in {"chat", "store", "race"} THEN {TRUE} ELSE BOOLEAN

\* whether a stop signal may arrive in a run of the family
Signals(fam) == fam = "store"

\* the number of frames read in a run of the family
FrameBudget(fam) == IF fam \in {"provider", "adjust"} THEN MaxFrames - 1 ELSE MaxFrames

\* the connections that clients open in a run of the family
ClientsOf(fam) ==
    IF fam \in {"provider", "action", "store", "adjust"} THEN {1}
    ELSE IF fam = "race" THEN 1..2
    ELSE Conns

Scenarios ==
    {[family |-> "chat", config |-> LocalConfig, prior |-> k, max |-> 255, level |-> 50] : k \in PriorChoices}
    \cup {[family |-> "race", config |-> load_config(TRUE, FALSE, "none", "absent"), prior |-> 1,
            max |-> 255, level |-> 50]}
    \cup {[family |-> "provider", config |-> p[1], prior |-> 0, max |-> p[2], level |-> 50] :
              p \in {q \in Configs \X BacklightMax : q[2] = 255 \/ q[1] = LocalConfig}}
    \cup {[family |-> "action", config |-> LocalConfig, prior |-> 1, max |-> 255, level |-> 50],
          [family |-> "protocol", config |-> LocalConfig, prior |-> 0, max |-> 255, level |-> 50]}
    \cup {[family |-> "adjust", config |-> LocalConfig, prior |-> 0, max |-> 255, level |-> l] :
              l \in StartLevels}
    \cup {[family |-> "store", config |-> LocalConfig, prior |-> 1, max |-> 255, level |-> 50]}

(* -------------------------------- state -------------------------------- *)

VARIABLES
    g_config,        \* agent_config_t, set once by load_config
    g_running,       \* volatile bool g_running
    g_server_fd,     \* "none", "socket" (not bound), "listening" or "closed"
    sockPath,        \* whether /run/aios/agent.sock exists
    g_history,       \* g_history[0 .. g_history_count-1]
    g_history_mutex, \* 0 when free, else the connection whose thread holds it
    dev,             \* the device behind the HAL
    lpc,             \* where the main thread is: agent_run, agent_cleanup, exit
    conn,            \* per connection: "none", "open" or "closed"
    hpc,             \* per connection: where its client_handler thread is
    frame,           \* per connection: the frame read last
    nread,           \* per connection: number of frames read
    req,             \* per connection: the request being dispatched
    ai,              \* per connection: ai_response of the chat in progress
    path,            \* per connection: how ai_response was produced
    net,             \* per connection: what the provider call got back
    act,             \* per connection: action_result_t of the request
    calls,           \* per connection: HAL calls made for the request
    sent,            \* per connection: response frames sent
    sys,             \* shell commands started with system()
    family,          \* the family of requests the clients of this run send
    nframes,         \* number of frames read over all connections
    sigDelivered,    \* a stop signal has been delivered
    accepted,        \* connections accept() has returned
    freed,           \* number of leading turns whose content agent_cleanup freed
    held,            \* per connection: buffers of its handler not yet released
    overlapped       \* two threads have been inside agent_chat at once

vars ==
    <<g_config, g_running, g_server_fd, sockPath, g_history, g_history_mutex, dev,
      lpc, conn, hpc, frame, nread, req, ai, path, net, act, calls, sent, sys,
      family, nframes, sigDelivered, accepted, overlapped, freed, held>>

listenerVars == <<g_running, g_server_fd, sockPath, lpc, sigDelivered, accepted>>
scratchVars == <<ai, path, net, act, calls, overlapped>>

g_history_count == Len(g_history)

NoNet == Outcome("none", 0, "none", NoItem)

Init ==
    /\ \E sc \in Scenarios :
          /\ family = sc.family
          /\ g_config = sc.config
          /\ g_history = PriorHistory(sc.prior)
          /\ dev = HalAt(sc.max, sc.level)
    /\ g_running = FALSE
    /\ g_server_fd = "none"
    /\ sockPath = FALSE
    /\ g_history_mutex = 0
    /\ lpc = "agent_run"
    /\ conn = [c \in Conns |-> "none"]
    /\ hpc = [c \in Conns |-> "none"]
    /\ frame = [c \in Conns |-> NoFrame]
    /\ nread = [c \in Conns |-> 0]
    /\ req = [c \in Conns |-> NoItem]
    /\ ai = [c \in Conns |-> <<>>]
    /\ path = [c \in Conns |-> "none"]
    /\ net = [c \in Conns |-> NoNet]
    /\ act = [c \in Conns |-> ZeroResult]
    /\ calls = [c \in Conns |-> <<>>]
    /\ sent = [c \in Conns |-> <<>>]
    /\ sys = <<>>
    /\ nframes = 0
    /\ sigDelivered = FALSE
    /\ accepted = {}
    /\ overlapped = FALSE
    /\ freed = 0
    /\ held = [c \in Conns |-> {}]

\* the process is alive: main has not returned
Alive == lpc \notin {"exited", "crashed", "halted"}

(* ------------------------------ listener ------------------------------- *)

\* agent_run lines 676-707: socket, unlink, bind, chmod, listen, g_running = true
AgentRunSetup(bindOk) ==
    /\ lpc = "agent_run"
    /\ IF bindOk
       THEN /\ g_server_fd' = "listening"
            /\ sockPath' = TRUE
            /\ g_running' = TRUE
            /\ lpc' = "while"
       ELSE /\ g_server_fd' = "socket"
            /\ UNCHANGED <<sockPath, g_running>>
            /\ lpc' = "returned"
    /\ UNCHANGED <<g_config, freed, held, g_history, g_history_mutex, dev, conn, hpc, frame, nread,
                   req, sys, family, nframes, sigDelivered, accepted, sent>>
    /\ UNCHANGED scratchVars

\* line 709: while (g_running)
ListenerTest ==
    /\ lpc = "while"
    /\ lpc' = IF g_running THEN "accept" ELSE "returned"
    /\ UNCHANGED <<g_config, freed, held, g_running, g_server_fd, sockPath, g_history, g_history_mutex,
                   dev, conn, hpc, frame, nread, req, sys, family, nframes, sigDelivered,
                   accepted, sent>>
    /\ UNCHANGED scratchVars

\* lines 710-720: a client connects, accept returns its connection and a
\* detached client_handler thread is started for it; connections are
\* numbered in the order in which they are accepted
ListenerAccept(c) ==
    /\ lpc = "accept"
    /\ c \in ClientsOf(family)
    /\ conn[c] = "none"
    /\ \A d \in 1..(c - 1) : conn[d] # "none"
    /\ g_server_fd = "listening" /\ sockPath
    /\ conn' = [conn EXCEPT ![c] = "open"]
    /\ hpc' = [hpc EXCEPT ![c] = "recv"]
    /\ accepted' = accepted \cup {c}
    /\ lpc' = "while"
    /\ UNCHANGED <<g_config, freed, held, g_running, g_server_fd, sockPath, g_history, g_history_mutex,
                   dev, frame, nread, req, sys, family, nframes, sigDelivered, sent>>
    /\ UNCHANGED scratchVars

\* lines 713-716: accept returns -1 (interrupted, out of descriptors): continue
ListenerAcceptFail ==
    /\ lpc = "accept"
    /\ lpc' = "while"
    /\ UNCHANGED <<g_config, freed, held, g_running, g_server_fd, sockPath, g_history, g_history_mutex,
                   dev, conn, hpc, frame, nread, req, sys, family, nframes, sigDelivered,
                   accepted, sent>>
    /\ UNCHANGED scratchVars

\* signal_handler, lines 768-771, run on SIGINT or SIGTERM
signal_handler ==
    /\ Alive
    /\ Signals(family)
    /\ ~sigDelivered
    /\ g_running' = FALSE
    /\ sigDelivered' = TRUE
    /\ UNCHANGED <<g_config, freed, held, g_server_fd, sockPath, g_history, g_history_mutex, dev, lpc,
                   conn, hpc, frame, nread, req, sys, family, nframes, accepted, sent>>
    /\ UNCHANGED scratchVars

\* agent_cleanup lines 747-752, called by main when agent_run has returned:
\* g_running = false, close the server socket, unlink its path
agent_cleanup ==
    /\ lpc = "returned"
    /\ g_running' = FALSE
    /\ g_server_fd' = "closed"
    /\ sockPath' = FALSE
    /\ lpc' = "freeing"
    /\ UNCHANGED <<g_config, freed, held, g_history, g_history_mutex, dev, conn, hpc, frame,
                   nread, req, sys, family, nframes, sigDelivered, accepted, sent>>
    /\ UNCHANGED scratchVars

\* agent_cleanup lines 754-763: the content of every turn is freed, without
\* g_history_mutex; g_history_count and the pointers stay as they are
CleanupFree ==
    /\ lpc = "freeing"
    /\ freed' = g_history_count
    /\ lpc' = "cleaned"
    /\ UNCHANGED <<g_config, held, g_running, g_server_fd, sockPath, g_history,
                   g_history_mutex, dev, conn, hpc, frame, nread, req, sys, family, nframes,
                   sigDelivered, accepted, sent>>
    /\ UNCHANGED scratchVars

\* main line 790: return ret; the process and all its threads end
ProcessExit ==
    /\ lpc = "cleaned"
    /\ lpc' = "exited"
    /\ UNCHANGED <<g_config, freed, held, g_running, g_server_fd, sockPath, g_history, g_history_mutex,
                   dev, conn, hpc, frame, nread, req, sys, family, nframes, sigDelivered,
                   accepted, sent>>
    /\ UNCHANGED scratchVars

(* --------------------------- client_handler ---------------------------- *)

Cmd(r) == cJSON_GetObjectItem(r, "cmd")
IsCmd(r, name) == HasString(Cmd(r)) /\ Cmd(r).v = name

\* which branch of the dispatch in lines 594-657 a request takes
Branch(r) ==
    IF IsCmd(r, "chat") /\ HasString(cJSON_GetObjectItem(r, "text")) THEN "chat"
    ELSE IF IsCmd(r, "action") /\ cJSON_GetObjectItem(r, "action") # NoItem THEN "action"
    ELSE IF IsCmd(r, "status") THEN "status"
    ELSE IF IsCmd(r, "clear") THEN "clear"
    ELSE "none"

\* malloc, cJSON_Parse, cJSON_CreateObject, cJSON_PrintUnformatted give the
\* handler a buffer; free and cJSON_Delete release it
Alloc(bufs, b) == bufs \cup {b}
Free(bufs, b) == bufs \ {b}

\* lines 659-668: cJSON_Delete(request), print the response,
\* cJSON_Delete(response), send, free(resp_str)
ReleaseRequest(bufs) ==
    Free(Alloc(Free(Free(bufs, "request"), "response"), "resp_str"), "resp_str")

\* close(client_fd); return NULL;  (lines 671-672)
CloseConn(c) ==
    /\ conn' = [conn EXCEPT ![c] = "closed"]
    /\ hpc' = [hpc EXCEPT ![c] = "done"]

\* lines 662-668 sending the frame a second time
Send_twice(c, body) ==
    /\ sent' = [sent EXCEPT ![c] = Append(Append(@, [n |-> nread[c], cmd |-> Branch(req[c]), body |-> body]),
                                          [n |-> nread[c], cmd |-> Branch(req[c]), body |-> body])]
    /\ hpc' = [hpc EXCEPT ![c] = "recv"]

\* lines 662-668: the response object is printed and sent as one frame
Send(c, body) ==
    /\ sent' = [sent EXCEPT ![c] = Append(@, [n |-> nread[c], cmd |-> Branch(req[c]), body |-> body])]
    /\ hpc' = [hpc EXCEPT ![c] = "recv"]

\* lines 561-589: read the length, check it, read the body, parse it
Recv(c, f, mallocOk) ==
    /\ Alive
    /\ hpc[c] = "recv"
    /\ nframes < FrameBudget(family)
    /\ nframes' = nframes + 1
    /\ frame' = [frame EXCEPT ![c] = f]
    /\ nread' = [nread EXCEPT ![c] = @ + 1]
    /\ calls' = [calls EXCEPT ![c] = <<>>]
    /\ act' = [act EXCEPT ![c] = ZeroResult]
    /\ ai' = [ai EXCEPT ![c] = <<>>]
    /\ path' = [path EXCEPT ![c] = "none"]
    /\ net' = [net EXCEPT ![c] = NoNet]
    /\ IF Len(f.hdr) # 4 \/ TooLong(f.hdr) \/ ~mallocOk
       THEN /\ CloseConn(c)
            /\ req' = [req EXCEPT ![c] = NoItem]
            /\ UNCHANGED held
       ELSE IF ~f.complete \/ f.payload = ParseFail
       THEN /\ CloseConn(c)
            /\ req' = [req EXCEPT ![c] = NoItem]
            /\ held' = [held EXCEPT ![c] = Free(Alloc(@, "msg"), "msg")]
       ELSE /\ req' = [req EXCEPT ![c] = f.payload]
            /\ hpc' = [hpc EXCEPT ![c] = "dispatch"]
            /\ held' = [held EXCEPT ![c] =
                            Alloc(Free(Alloc(Alloc(@, "msg"), "request"), "msg"), "response")]
            /\ UNCHANGED conn
    /\ UNCHANGED <<g_config, freed, g_history, g_history_mutex, dev, sys, family, sent, overlapped>>
    /\ UNCHANGED listenerVars

\* the commands jobs as system() starts them for request nread[c] of
\* connection c
StartedBy(jobs, c) ==
    [i \in 1..Len(jobs) |->
        [cmd |-> jobs[i].cmd, delay |-> jobs[i].delay, fired |-> jobs[i].fired,
         c |-> c, n |-> nread[c]]]

\* free() of a pointer that agent_cleanup has freed already, or a read
\* through it, is undefined: the thread may go on as if nothing had happened,
\* or the process dies of it
Abort(c) ==
    /\ lpc' = "crashed"
    /\ hpc' = [hpc EXCEPT ![c] = "crashed"]
    /\ UNCHANGED <<g_running, g_server_fd, sockPath, sigDelivered, accepted>>

\* no branch fills the response object: it is sent as it was created
CmdNone(c) ==
    /\ Alive
    /\ hpc[c] = "dispatch"
    /\ Branch(req[c]) = "none"
    /\ Send(c, JObj([x \in {} |-> NoItem]))
    /\ held' = [held EXCEPT ![c] = ReleaseRequest(@)]
    /\ UNCHANGED <<g_config, freed, g_history, g_history_mutex, dev, conn, frame, nread, req, sys,
                   family, nframes>>
    /\ UNCHANGED listenerVars
    /\ UNCHANGED scratchVars

ResultJson(r) ==
    JObj([success |-> JBool(r.success), message |-> [t |-> "msg", v |-> r.message]])

\* lines 618-631: the action command
CmdAction(c, ok) ==
    /\ Alive
    /\ hpc[c] = "dispatch"
    /\ Branch(req[c]) = "action"
    /\ LET out == agent_execute_action(cJSON_GetObjectItem(req[c], "action"), dev, ok)
       IN  /\ dev' = out.dev
           /\ calls' = [calls EXCEPT ![c] = @ \o out.calls]
           /\ sys' = sys \o StartedBy(out.sys, c)
           /\ act' = [act EXCEPT ![c] = out.result]
           /\ Send(c, JObj([result |-> ResultJson(out.result)]))
           /\ held' = [held EXCEPT ![c] =
                           ReleaseRequest(IF out.result.data THEN Alloc(@, "data") ELSE @)]
    /\ UNCHANGED <<g_config, freed, g_history, g_history_mutex, conn, frame, nread, req, family,
                   nframes, ai, path, net, overlapped>>
    /\ UNCHANGED listenerVars

\* the status command emptying the store on its way
CmdStatus_clear(c) ==
    /\ Alive
    /\ hpc[c] = "dispatch"
    /\ Branch(req[c]) = "status"
    /\ g_history' = <<>>
    /\ Send(c, JObj([status |-> JStr("ok")]))
    /\ held' = [held EXCEPT ![c] = ReleaseRequest(@)]
    /\ UNCHANGED <<g_config, freed, g_history_mutex, dev, conn, frame, nread, req, sys, family,
                   nframes>>
    /\ UNCHANGED listenerVars
    /\ UNCHANGED scratchVars

\* lines 632-647: the status command
CmdStatus(c) ==
    /\ Alive
    /\ hpc[c] = "dispatch"
    /\ Branch(req[c]) = "status"
    /\ calls' = [calls EXCEPT ![c] = Append(@, HalCall("hal_system_info", NoArg, hal_system_info))]
    /\ Send(c, JObj([status |-> JStr("ok"), running |-> JBool(TRUE),
                     ai_configured |-> JBool(g_config.openai_api_key \/ g_config.anthropic_api_key),
                     system |-> JObj([hostname |-> JStr("host"), kernel |-> JStr("Linux"),
                                      memory_mb |-> JNum(2048),
                                      memory_free_mb |-> JNum(1024)])]))
    /\ held' = [held EXCEPT ![c] = ReleaseRequest(@)]
    /\ UNCHANGED <<g_config, freed, g_history, g_history_mutex, dev, conn, frame, nread, req, sys,
                   family, nframes, ai, path, net, act, overlapped>>
    /\ UNCHANGED listenerVars

\* line 649: pthread_mutex_lock in the clear command
ClearLock(c) ==
    /\ Alive
    /\ hpc[c] = "dispatch"
    /\ Branch(req[c]) = "clear"
    /\ g_history_mutex = 0
    /\ g_history_mutex' = c
    /\ hpc' = [hpc EXCEPT ![c] = "clear_locked"]
    /\ UNCHANGED <<g_config, freed, held, g_history, dev, conn, frame, nread, req, sys, family, nframes,
                   sent>>
    /\ UNCHANGED listenerVars
    /\ UNCHANGED scratchVars

\* lines 650-655: free the turns, g_history_count = 0, unlock, status ok.
\* die: what the second free of a turn that agent_cleanup freed leads to.
ClearDone(c, die) ==
    /\ Alive
    /\ hpc[c] = "clear_locked"
    /\ IF freed > 0 /\ die
       THEN /\ Abort(c)
            /\ UNCHANGED <<g_history, g_history_mutex, freed, held, sent>>
       ELSE /\ g_history' = <<>>
            /\ freed' = 0
            /\ g_history_mutex' = 0
            /\ Send(c, JObj([status |-> JStr("ok")]))
            /\ held' = [held EXCEPT ![c] = ReleaseRequest(@)]
            /\ UNCHANGED listenerVars
    /\ UNCHANGED <<g_config, dev, conn, frame, nread, req, sys, family, nframes>>
    /\ UNCHANGED scratchVars

(* ------------------------------ agent_chat ----------------------------- *)

\* the thread of connection c is inside agent_chat
InChat(c) ==
    hpc[c] \in {"snapshot", "perform", "extract", "lock", "evict", "user", "assistant", "unlock"}

EnterChat(c) == overlapped' = (overlapped \/ \E d \in Conns \ {c} : InChat(d))

ChatText(c) == cJSON_GetObjectItem(req[c], "text").v

\* process_local_fallback as agent_chat calls it, lines 508 and 511
RunFallback(c, getOk, setOk) ==
    LET out == process_local_fallback(ChatText(c), dev, getOk, setOk)
    IN  /\ ai' = [ai EXCEPT ![c] = out.reply]
        /\ calls' = [calls EXCEPT ![c] = @ \o out.calls]
        /\ dev' = out.dev
        /\ path' = [path EXCEPT ![c] = "fallback"]

\* lines 323-324 on a text of 255 characters or more: lower[255] is never
\* written, and unless a zero byte happens to lie there the loop of line 324
\* and strstr run past the array, which is undefined: the process is taken
\* to die of it
Overrun(c, zero) == ~Fits(ChatText(c)) /\ ~zero

Crash(c) ==
    /\ lpc' = "crashed"
    /\ hpc' = [hpc EXCEPT ![c] = "crashed"]
    /\ path' = [path EXCEPT ![c] = "fallback"]
    /\ UNCHANGED <<g_running, g_server_fd, sockPath, sigDelivered, accepted, ai, calls, dev>>

\* lines 503-512 without a provider call: the fallback answers
ChatLocal(c, getOk, setOk, zero) ==
    /\ Alive
    /\ hpc[c] = "dispatch"
    /\ Branch(req[c]) = "chat"
    /\ ~UsesProvider(g_config)
    /\ EnterChat(c)
    /\ IF Overrun(c, zero)
       THEN Crash(c)
       ELSE /\ RunFallback(c, getOk, setOk)
            /\ hpc' = [hpc EXCEPT ![c] = "extract"]
            /\ UNCHANGED listenerVars
    /\ UNCHANGED <<g_config, freed, held, g_history, g_history_mutex, conn, frame, nread, req, sys,
                   family, nframes, sent, net, act>>

\* call_openai lines 247-253: lock the history and copy it into the request
ProviderLock(c) ==
    /\ Alive
    /\ hpc[c] = "dispatch"
    /\ Branch(req[c]) = "chat"
    /\ UsesProvider(g_config)
    /\ g_history_mutex = 0
    /\ g_history_mutex' = c
    /\ hpc' = [hpc EXCEPT ![c] = "snapshot"]
    /\ EnterChat(c)
    /\ UNCHANGED <<g_config, freed, held, g_history, dev, conn, frame, nread, req, sys, family, nframes,
                   sent, ai, path, net, act, calls>>
    /\ UNCHANGED listenerVars

\* call_openai with the unlock of line 254 left out: the lock is kept while
\* the HTTP request is made
ProviderUnlock_held(c, die) ==
    /\ Alive
    /\ hpc[c] = "snapshot"
    /\ hpc' = [hpc EXCEPT ![c] = "perform"]
    /\ UNCHANGED <<g_config, freed, held, g_history, g_history_mutex, dev, conn, frame, nread,
                   req, sys, family, nframes, sent>>
    /\ UNCHANGED listenerVars
    /\ UNCHANGED scratchVars

\* call_openai lines 248-254: the turns are copied, then unlock; the HTTP
\* request is built and started.  die: what reading the content of a turn
\* that agent_cleanup freed leads to.
ProviderUnlock(c, die) ==
    /\ Alive
    /\ hpc[c] = "snapshot"
    /\ IF freed > 0 /\ die
       THEN /\ Abort(c)
            /\ UNCHANGED g_history_mutex
       ELSE /\ g_history_mutex' = 0
            /\ hpc' = [hpc EXCEPT ![c] = "perform"]
            /\ UNCHANGED listenerVars
    /\ UNCHANGED <<g_config, freed, held, g_history, dev, conn, frame, nread, req, sys, family,
                   nframes, sent>>
    /\ UNCHANGED scratchVars

\* call_openai lines 284-318 and agent_chat lines 507-509: the HTTP exchange
\* ends; when call_openai returns -1 the fallback answers
ProviderReturn(c, n, getOk, setOk, zero) ==
    /\ Alive
    /\ hpc[c] = "perform"
    /\ net' = [net EXCEPT ![c] = n]
    /\ IF call_openai(n).ret < 0
       THEN IF Overrun(c, zero)
            THEN Crash(c)
            ELSE /\ RunFallback(c, getOk, setOk)
                 /\ hpc' = [hpc EXCEPT ![c] = "extract"]
                 /\ UNCHANGED listenerVars
       ELSE /\ ai' = [ai EXCEPT ![c] = call_openai(n).response]
            /\ path' = [path EXCEPT ![c] = "provider"]
            /\ hpc' = [hpc EXCEPT ![c] = "extract"]
            /\ UNCHANGED <<calls, dev>>
            /\ UNCHANGED listenerVars
    /\ UNCHANGED <<g_config, freed, held, g_history, g_history_mutex, conn, frame, nread, req, sys,
                   family, nframes, sent, act, overlapped>>

\* agent_chat lines 519-532: run the action found in the reply, if any
ChatExecute(c, ok) ==
    /\ Alive
    /\ hpc[c] = "extract"
    /\ LET frag == ExtractAction(ai[c])
           out == agent_execute_action(frag, dev, ok)
       IN  IF frag = NoFrag
           THEN UNCHANGED <<dev, calls, sys, act, held>>
           ELSE /\ dev' = out.dev
                /\ calls' = [calls EXCEPT ![c] = @ \o out.calls]
                /\ sys' = sys \o StartedBy(out.sys, c)
                /\ act' = [act EXCEPT ![c] = out.result]
                /\ held' = [held EXCEPT ![c] = IF out.result.data THEN Alloc(@, "data") ELSE @]
    /\ hpc' = [hpc EXCEPT ![c] = "lock"]
    /\ UNCHANGED <<g_config, freed, g_history, g_history_mutex, conn, frame, nread, req, family,
                   nframes, sent, ai, path, net, overlapped>>
    /\ UNCHANGED listenerVars

\* agent_chat entering its append without waiting for the lock
HistoryLock_free(c) ==
    /\ Alive
    /\ hpc[c] = "lock"
    /\ g_history_mutex' = c
    /\ hpc' = [hpc EXCEPT ![c] = "evict"]
    /\ UNCHANGED <<g_config, freed, held, g_history, dev, conn, frame, nread, req, sys, family,
                   nframes, sent>>
    /\ UNCHANGED listenerVars
    /\ UNCHANGED scratchVars

\* line 535: pthread_mutex_lock(&g_history_mutex)
HistoryLock(c) ==
    /\ Alive
    /\ hpc[c] = "lock"
    /\ g_history_mutex = 0
    /\ g_history_mutex' = c
    /\ hpc' = [hpc EXCEPT ![c] = "evict"]
    /\ UNCHANGED <<g_config, freed, held, g_history, dev, conn, frame, nread, req, sys, family, nframes,
                   sent>>
    /\ UNCHANGED listenerVars
    /\ UNCHANGED scratchVars

\* lines 536-540: drop the oldest turn when the array is full.  die: what
\* the second free of a turn that agent_cleanup freed leads to.
HistoryEvict(c, die) ==
    /\ Alive
    /\ hpc[c] = "evict"
    /\ IF NeedEvict(g_history_count) /\ freed > 0 /\ die
       THEN /\ Abort(c)
            /\ UNCHANGED <<g_history, freed>>
       ELSE /\ g_history' = Evict(g_history)
            /\ freed' = IF NeedEvict(g_history_count) /\ freed > 0 THEN freed - 1 ELSE freed
            /\ hpc' = [hpc EXCEPT ![c] = "user"]
            /\ UNCHANGED listenerVars
    /\ UNCHANGED <<g_config, held, g_history_mutex, dev, conn, frame, nread, req, sys, family,
                   nframes, sent>>
    /\ UNCHANGED scratchVars

\* lines 541-543: store the user turn
HistoryUser(c) ==
    /\ Alive
    /\ hpc[c] = "user"
    /\ g_history' = AddUser(g_history, ChatText(c))
    /\ hpc' = [hpc EXCEPT ![c] = "assistant"]
    /\ UNCHANGED <<g_config, freed, held, g_history_mutex, dev, conn, frame, nread, req, sys, family,
                   nframes, sent>>
    /\ UNCHANGED listenerVars
    /\ UNCHANGED scratchVars

\* lines 545-549: store the assistant turn when there is room
HistoryAssistant(c) ==
    /\ Alive
    /\ hpc[c] = "assistant"
    /\ g_history' = AddAssistant(g_history, ai[c])
    /\ hpc' = [hpc EXCEPT ![c] = "unlock"]
    /\ UNCHANGED <<g_config, freed, held, g_history_mutex, dev, conn, frame, nread, req, sys, family,
                   nframes, sent>>
    /\ UNCHANGED listenerVars
    /\ UNCHANGED scratchVars

ChatResponse(c) ==
    IF act[c].message.fmt # ""
    THEN JObj([status |-> JStr("ok"), response |-> [t |-> "reply", v |-> ai[c]],
               action_result |-> ResultJson(act[c])])
    ELSE JObj([status |-> JStr("ok"), response |-> [t |-> "reply", v |-> ai[c]]])

\* line 550 and client_handler lines 603-615, 659-668: unlock, answer,
\* free(action.data) when the result has a message and a data payload
ChatDone(c) ==
    /\ Alive
    /\ hpc[c] = "unlock"
    /\ g_history_mutex' = 0
    /\ Send(c, ChatResponse(c))
    /\ held' = [held EXCEPT ![c] =
                    ReleaseRequest(IF act[c].message.fmt # "" /\ act[c].data
                                   THEN Free(@, "data") ELSE @)]
    /\ UNCHANGED <<g_config, freed, g_history, dev, conn, frame, nread, req, sys, family, nframes>>
    /\ UNCHANGED listenerVars
    /\ UNCHANGED scratchVars

(* ------------------------- scheduled commands -------------------------- *)

\* the thread of connection c is running: it is not waiting for a frame or
\* for the provider's answer, and has not ended
Running(c) == hpc[c] \notin {"none", "recv", "done", "perform", "crashed"}

\* shutdown(8) counts a minute down.  A running thread needs far less than
\* a minute for the rest of its request, so a minute passes only while no
\* thread is running.
MinutePasses ==
    /\ Alive
    /\ \E i \in 1..Len(sys) : sys[i].delay > 0
    /\ \A c \in Conns : ~Running(c)
    /\ sys' = [i \in 1..Len(sys) |-> [sys[i] EXCEPT !.delay = IF @ > 0 THEN @ - 1 ELSE 0]]
    /\ UNCHANGED <<g_config, freed, held, g_history, g_history_mutex, dev, conn, hpc, frame, nread, req,
                   family, nframes, sent>>
    /\ UNCHANGED listenerVars
    /\ UNCHANGED scratchVars

\* a scheduled shutdown or reboot is due: the system goes down and takes the
\* process with it
PowerEffect ==
    /\ Alive
    /\ \E i \in 1..Len(sys) :
          /\ sys[i].delay = 0
          /\ sys' = [sys EXCEPT ![i].fired = TRUE]
    /\ lpc' = "halted"
    /\ UNCHANGED <<g_config, freed, held, g_running, g_server_fd, sockPath, g_history, g_history_mutex,
                   dev, conn, hpc, frame, nread, req, family, nframes, sigDelivered,
                   accepted, sent>>
    /\ UNCHANGED scratchVars

(* ---------------------------- specification ---------------------------- *)

\* the outcomes of touching a turn of the store: it may be fatal only when
\* agent_cleanup has freed turns
Dangling == IF freed > 0 THEN BOOLEAN ELSE {FALSE}

Next ==
    \/ \E b \in BOOLEAN : AgentRunSetup(b)
    \/ ListenerTest
    \/ \E c \in Conns : ListenerAccept(c)
    \/ ListenerAcceptFail
    \/ signal_handler
    \/ agent_cleanup
    \/ CleanupFree
    \/ ProcessExit
    \/ \E c \in Conns, f \in FramesOf(family), m \in Faults(family) : Recv(c, f, m)
    \/ \E c \in Conns : CmdNone(c)
    \/ \E c \in Conns, ok \in Faults(family) : CmdAction(c, ok)
    \/ \E c \in Conns : CmdStatus(c)
    \/ \E c \in Conns : ClearLock(c)
    \/ \E c \in Conns, z \in Dangling : ClearDone(c, z)
    \/ \E c \in Conns, g \in Faults(family), s \in Faults(family), z \in BOOLEAN :
          ChatLocal(c, g, s, z)
    \/ \E c \in Conns : ProviderLock(c)
    \/ \E c \in Conns, z \in Dangling : ProviderUnlock(c, z)
    \/ \E c \in Conns, n \in NetOutcomes(family), g \in Faults(family), s \in Faults(family),
            z \in BOOLEAN : ProviderReturn(c, n, g, s, z)
    \/ \E c \in Conns, ok \in Faults(family) : ChatExecute(c, ok)
    \/ \E c \in Conns : HistoryLock(c)
    \/ \E c \in Conns, z \in Dangling : HistoryEvict(c, z)
    \/ \E c \in Conns : HistoryUser(c)
    \/ \E c \in Conns : HistoryAssistant(c)
    \/ \E c \in Conns : ChatDone(c)
    \/ MinutePasses
    \/ PowerEffect

Spec == Init /\ [][Next]_vars

TypeOK ==
    /\ g_running \in BOOLEAN
    /\ g_history_mutex \in {0} \cup Conns
    /\ lpc \in {"agent_run", "while", "accept", "returned", "freeing", "cleaned", "exited",
               "crashed", "halted"}
    /\ freed \in 0..g_history_count
    /\ \A c \in Conns : held[c] \subseteq {"request", "response", "data"}

(* ------------------------------ properties ----------------------------- *)

\* the frame read last on connection c has been answered
Answered(c) ==
    /\ hpc[c] = "recv"
    /\ nread[c] > 0
    /\ Len(sent[c]) > 0
    /\ sent[c][Len(sent[c])].n = nread[c]

LastBody(c) == sent[c][Len(sent[c])].body

\* no response frame was sent for the frame read last on connection c
Unanswered(c) == \A i \in 1..Len(sent[c]) : sent[c][i].n # nread[c]

\* C1: the number of turns in the conversation store never exceeds
\* MAX_HISTORY_SIZE, also inside the critical section of agent_chat.
C1_HistoryBounded == g_history_count <= MAX_HISTORY_SIZE

\* a chat on a full store is inside its critical section, the user turn stored
C1_Witness ==
    \E c \in Conns :
        /\ hpc[c] = "assistant"
        /\ g_history_mutex = c
        /\ g_history_count = MAX_HISTORY_SIZE

Count(role, content) ==
    Cardinality({i \in 1..Len(g_history) :
                    g_history[i].role = role /\ g_history[i].content = content})

ChatAnswered(c) == Answered(c) /\ Branch(req[c]) = "chat"

\* C2: after two chat requests that ran concurrently on two connections have
\* been answered, the store holds the user turn and the assistant turn of
\* each exactly once, the user turn before the assistant turn.
C2_NoTurnLost ==
    \A c \in Conns : \A d \in Conns \ {c} :
        (overlapped /\ ChatAnswered(c) /\ ChatAnswered(d) /\ nread[c] = 1 /\ nread[d] = 1)
        => /\ Count("user", ChatText(c)) = IF ChatText(c) = ChatText(d) THEN 2 ELSE 1
           /\ Count("assistant", ai[c]) = IF ai[c] = ai[d] THEN 2 ELSE 1
           /\ \E i \in 1..Len(g_history) : \E j \in (i + 1)..Len(g_history) :
                 /\ g_history[i].role = "user" /\ g_history[i].content = ChatText(c)
                 /\ g_history[j].role = "assistant" /\ g_history[j].content = ai[c]

MissingField(p) ==
    /\ p.t = "obj"
    /\ \/ cJSON_GetObjectItem(p, "cmd") = NoItem
       \/ IsCmd(p, "chat") /\ cJSON_GetObjectItem(p, "text") = NoItem
       \/ IsCmd(p, "action") /\ cJSON_GetObjectItem(p, "action") = NoItem

WellFramed(f) == Len(f.hdr) = 4 /\ ntohl(f.hdr) <= MAX_MESSAGE_SIZE /\ f.complete

\* C3: a request that is not JSON, or lacks "cmd", or is a chat without
\* "text" or an action without "action", closes the connection and no
\* response frame is sent for it.
C3_BadRequestCloses ==
    \A c \in Conns :
        (/\ nread[c] > 0
         /\ WellFramed(frame[c])
         /\ frame[c].payload.t = "invalid" \/ MissingField(frame[c].payload)
         /\ hpc[c] # "dispatch")
        => conn[c] = "closed" /\ Unanswered(c)

\* C4: an ActionResult with success=true is returned only when the HAL call
\* made for the intent succeeded.
C4_SuccessMeansHalSucceeded ==
    \A c \in Conns :
        (Answered(c) /\ act[c].success /\ calls[c] # <<>>)
        => calls[c][Len(calls[c])].ret = 0

ProviderFailed(c) ==
    \/ ~UsesProvider(g_config)
    \/ net[c].res # "CURLE_OK"
    \/ net[c].http \notin 200..299
    \/ net[c].body = "unparseable"
    \/ net[c].content.t = "NULL"

\* C5: when the provider call of a chat fails (transport error, non-2xx
\* status, unparseable body, body without reply, no credentials, no
\* provider), the chat is answered by the fallback interpreter, status ok.
C5_FailureFallsBack ==
    \A c \in Conns :
        (ChatAnswered(c) /\ ProviderFailed(c))
        => /\ path[c] = "fallback"
           /\ LastBody(c).v.status = JStr("ok")
           /\ LastBody(c).v.response.v = ai[c]

Oversized(f) == Len(f.hdr) = 4 /\ ntohl(f.hdr) > MAX_MESSAGE_SIZE

\* C6: a frame whose big-endian length field exceeds MAX_MESSAGE_SIZE closes
\* the connection: no response is sent for it and no command is dispatched.
C6_OversizedCloses ==
    \A c \in Conns :
        (nread[c] > 0 /\ Oversized(frame[c]))
        => /\ conn[c] = "closed"
           /\ hpc[c] = "done"
           /\ req[c] = NoItem
           /\ calls[c] = <<>>
           /\ Unanswered(c)

\* an oversized frame arrived after a request that was answered
C6_Witness ==
    \E c \in Conns :
        /\ nread[c] = 2
        /\ Oversized(frame[c])
        /\ Len(sent[c]) = 1
        /\ conn[c] = "closed"

\* C7: every response frame is a JSON object with a "status" field that is
\* "ok" or "error".
C7_ResponsesCarryStatus ==
    \A c \in Conns : \A i \in 1..Len(sent[c]) :
        /\ sent[c][i].body.t = "obj"
        /\ "status" \in DOMAIN sent[c][i].body.v
        /\ sent[c][i].body.v.status.t = "str"
        /\ sent[c][i].body.v.status.v \in {"ok", "error"}

ParamOf(name) ==
    CASE name \in {"brightness", "volume"} -> "level"
      [] name = "mute" -> "muted"
      [] name \in {"wifi", "bluetooth"} -> "enabled"
      [] name = "launch" -> "app"
      [] OTHER -> "none"

LacksParam(a) ==
    /\ HasString(cJSON_GetObjectItem(a, "action"))
    /\ ParamOf(cJSON_GetObjectItem(a, "action").v) # "none"
    /\ cJSON_GetObjectItem(a, ParamOf(cJSON_GetObjectItem(a, "action").v)) = NoItem

ActionAnswered(c) == Answered(c) /\ Branch(req[c]) = "action"

\* C8: an intent that takes a parameter and comes without it yields
\* success=false and no HAL call.
C8_MissingParamFails ==
    \A c \in Conns :
        (ActionAnswered(c) /\ LacksParam(cJSON_GetObjectItem(req[c], "action")))
        => ~act[c].success /\ calls[c] = <<>>

Vocabulary ==
    {"brightness", "volume", "mute", "wifi", "bluetooth", "shutdown", "reboot",
     "suspend", "launch", "info"}

UnknownIntent(a) ==
    /\ a.t = "obj"
    /\ \/ HasString(cJSON_GetObjectItem(a, "action"))
          /\ cJSON_GetObjectItem(a, "action").v \notin Vocabulary
       \/ cJSON_GetObjectItem(a, "action") = NoItem
          /\ HasString(cJSON_GetObjectItem(a, "name"))
          /\ cJSON_GetObjectItem(a, "name").v \notin Vocabulary

\* C9: an action request with an intent name outside the vocabulary is
\* answered with success=false and "Unknown action", makes no HAL call and
\* starts no command, and the handler goes on reading the connection.
C9_UnknownIntent ==
    \A c \in Conns :
        (/\ nread[c] > 0
         /\ Branch(req[c]) = "action"
         /\ UnknownIntent(cJSON_GetObjectItem(req[c], "action"))
         /\ hpc[c] # "dispatch")
        => /\ Answered(c)
           /\ conn[c] = "open"
           /\ LastBody(c).v.result.v.success = JBool(FALSE)
           /\ LastBody(c).v.result.v.message.v.fmt = "Unknown action"
           /\ calls[c] = <<>>

\* the unknown intent {"action":"unknown_xyz"} has been answered
C9_Witness ==
    \E c \in Conns :
        /\ ActionAnswered(c)
        /\ cJSON_GetObjectItem(cJSON_GetObjectItem(req[c], "action"), "action") = JStr("unknown_xyz")
        /\ ~act[c].success

\* C10 (safety half): once a stop signal has been delivered the listener
\* accepts no further connection.
C10_NoAcceptAfterSignal == [][sigDelivered => accepted' = accepted]_vars

\* the thread of connection c is between reading a request and sending its
\* response
InFlight(c) == hpc[c] \notin {"none", "recv", "done", "crashed"}

\* C11: when the process has exited after a stop signal, no handler was
\* left in the middle of a request: every request read got its response
\* before main returned.
C11_ExitAfterHandlers == lpc = "exited" => \A c \in Conns : ~InFlight(c)

\* the replies process_local_fallback can write
FallbackReply(r) ==
    \/ r = Capabilities
    \/ /\ Len(r) = 1
       /\ \/ r[1].k = "txt" /\ r[1].s \in {"Battery: %d%%, Status: %s", "The time is %H:%M:%S",
                                            "Today is %A, %B %d, %Y"}
          \/ r[1].k = "obj" /\ cJSON_GetObjectItem(r[1].o, "action").v
                                   \in {"brightness", "volume", "mute", "shutdown", "reboot", "wifi"}

\* C12: a chat request with no provider in use is always handled to its end,
\* whatever the text and the HAL outcomes, and its response has status ok and
\* a non-empty text out of the fallback replies.
C12_FallbackAlwaysAnswers ==
    \A c \in Conns :
        (nread[c] > 0 /\ Branch(req[c]) = "chat" /\ ~UsesProvider(g_config))
        => /\ hpc[c] # "crashed"
           /\ Answered(c) => /\ LastBody(c).v.status = JStr("ok")
                              /\ LastBody(c).v.response.v # <<>>
                              /\ FallbackReply(LastBody(c).v.response.v)

\* C13: with no provider in use and every HAL call succeeding, the chat
\* "set brightness to 80" is answered with status ok, a text that carries 80
\* and an action_result with success=true, and hal_brightness_get then
\* returns 80.
C13_BrightnessEighty ==
    \A c \in Conns :
        (/\ ChatAnswered(c)
         /\ ~UsesProvider(g_config)
         /\ ChatText(c) = <<"set", "Brightness", "to", "80">>
         /\ \A i \in 1..Len(calls[c]) : calls[c][i].ret = 0)
        => /\ LastBody(c).v.status = JStr("ok")
           /\ LastBody(c).v.response.v = <<ObjSeg([action |-> JStr("brightness"), level |-> JNum(80)])>>
           /\ "action_result" \in DOMAIN LastBody(c).v
           /\ LastBody(c).v.action_result.v.success = JBool(TRUE)
           /\ hal_brightness_get(dev, TRUE) = 80

\* C14: whatever level a brightness request carries, the raw brightness of
\* the backlight stays within 0..max_brightness, so the level read back is
\* within 0..100.
C14_BrightnessInRange ==
    /\ dev.brightness \in 0..dev.max_brightness
    /\ hal_brightness_get(dev, TRUE) \in 0..100

\* the action request for brightness 150 has been carried out and answered
C14_Witness ==
    \E c \in Conns :
        /\ ActionAnswered(c)
        /\ cJSON_GetObjectItem(cJSON_GetObjectItem(req[c], "action"), "level") = JNum(150)
        /\ act[c].success
        /\ hal_brightness_get(dev, TRUE) = 100

\* C15: the response to a status command that follows a clear command on
\* the same connection reports a store length of zero.
C15_StatusAfterClear ==
    \A c \in Conns :
        (/\ Answered(c)
         /\ Branch(req[c]) = "status"
         /\ Len(sent[c]) >= 2
         /\ sent[c][Len(sent[c]) - 1].cmd = "clear"
         /\ g_history_count = 0)
        => \E k \in DOMAIN LastBody(c).v : LastBody(c).v[k] = JNum(0)

\* C16: on each connection the responses sent are those of requests 1, 2, ...
\* in this order, one each; a frame is read only when every earlier request
\* has its response, and a handler waiting for a frame owes no response.
C16_OneResponsePerRequest ==
    \A c \in Conns :
        /\ \A i \in 1..Len(sent[c]) : sent[c][i].n = i
        /\ Len(sent[c]) <= nread[c]
        /\ nread[c] <= Len(sent[c]) + 1
        /\ hpc[c] = "recv" => Len(sent[c]) = nread[c]

\* two requests on one connection have been answered
C16_Witness == \E c \in Conns : nread[c] = 2 /\ Len(sent[c]) = 2 /\ hpc[c] = "recv"

ProviderConfigured(cfg) ==
    \/ cfg.provider = "AI_PROVIDER_OPENAI" /\ cfg.openai_api_key
    \/ cfg.provider = "AI_PROVIDER_ANTHROPIC" /\ cfg.anthropic_api_key

\* C18: with a remote provider selected and its key set, a chat request
\* that has been answered made a provider call.
C18_ExactlyOneProviderCall ==
    \A c \in Conns :
        (ChatAnswered(c) /\ ProviderConfigured(g_config)) => net[c] # NoNet

\* two turns are the same: the role is compared first, a user turn holds a
\* text and an assistant turn a reply
SameTurn(a, b) == a.role = b.role /\ a.content = b.content

\* C19: when a chat leaves its critical section, the last two turns of the
\* store are its user turn and its assistant turn.
C19_TwoTurnsAppended ==
    \A c \in Conns :
        hpc[c] = "unlock"
        => /\ g_history_count >= 2
           /\ SameTurn(g_history[g_history_count - 1], Turn("user", ChatText(c)))
           /\ SameTurn(g_history[g_history_count], Turn("assistant", ai[c]))

\* C20: the eviction of a chat on a full store removes the first turn, which
\* is no system turn, and moves every other turn one place down.
C20_FifoEviction ==
    [][\A c \in Conns :
          (hpc[c] = "evict" /\ hpc'[c] = "user" /\ g_history_count >= MAX_HISTORY_SIZE)
          => /\ g_history[1].role # "system"
             /\ Len(g_history') = g_history_count - 1
             /\ \A i \in 1..Len(g_history') : SameTurn(g_history'[i], g_history[i + 1])]_vars

\* a chat on a full store has evicted a turn: the oldest user turn is gone
C20_Witness ==
    \E c \in Conns :
        /\ hpc[c] = "user"
        /\ g_history_count = MAX_HISTORY_SIZE - 1
        /\ g_history[1].role = "assistant"

\* the main thread, next to the handler threads 1..NumConns
MainThread == NumConns + 1

\* the threads that are reading or changing the turns of the store: a
\* handler between its lock and its unlock, main inside the free loop of
\* agent_cleanup
Accessing ==
    {c \in Conns : hpc[c] \in {"snapshot", "evict", "user", "assistant", "clear_locked"}}
    \cup (IF lpc = "freeing" /\ g_history_count > 0 THEN {MainThread} ELSE {})

\* C21: every access to the conversation store (snapshot, append with
\* eviction, clear, the free loop of agent_cleanup) is made under
\* g_history_mutex, so at most one thread accesses the store at any time, and
\* a handler that accesses it holds the lock.
C21_StoreAccessExclusive ==
    /\ Cardinality(Accessing) <= 1
    /\ \A c \in Conns : c \in Accessing => g_history_mutex = c

\* where a handler thread is between pthread_mutex_lock and
\* pthread_mutex_unlock
LockedPcs == {"snapshot", "evict", "user", "assistant", "unlock", "clear_locked"}

\* C22: a handler thread holds g_history_mutex only between a lock and its
\* unlock, around the copy, the append or the clear: never while its provider
\* call is in flight, and never where it makes a HAL call (the fallback, the
\* dispatcher, the status command).
C22_NoLockAcrossCalls ==
    \A c \in Conns :
        /\ hpc[c] \in {"perform", "dispatch", "extract", "recv"} => g_history_mutex # c
        /\ g_history_mutex = c => hpc[c] \in LockedPcs \cup {"crashed"}

\* a chat waits for the provider while the handler of another connection
\* holds the lock for its clear
C22_Witness ==
    \E c \in Conns : \E d \in Conns \ {c} :
        /\ hpc[c] = "perform"
        /\ hpc[d] = "clear_locked"
        /\ g_history_mutex = d

LastTurn == g_history[g_history_count]

\* C23: the turns of one chat request are appended in one critical section:
\* while the request is between its user turn and its assistant turn the
\* last turn of the store is its user turn, when it leaves the section the
\* store ends with its pair (or with its user turn alone on a full store),
\* and every assistant turn in the store directly follows a user turn.
C23_AppendAtomic ==
    /\ \A c \in Conns :
          /\ hpc[c] = "assistant"
             => g_history_count >= 1 /\ SameTurn(LastTurn, Turn("user", ChatText(c)))
          /\ hpc[c] = "unlock"
             => \/ /\ g_history_count >= 2
                   /\ SameTurn(g_history[g_history_count - 1], Turn("user", ChatText(c)))
                   /\ SameTurn(LastTurn, Turn("assistant", ai[c]))
                \/ /\ g_history_count = MAX_HISTORY_SIZE
                   /\ SameTurn(LastTurn, Turn("user", ChatText(c)))
    /\ \A i \in 2..g_history_count :
          g_history[i].role = "assistant" => g_history[i - 1].role = "user"

\* two chats that overlapped have both been answered and the store holds
\* the pair of the one directly after the pair of the other
C23_Witness ==
    \E c \in Conns : \E d \in Conns \ {c} :
        /\ overlapped /\ ChatAnswered(c) /\ ChatAnswered(d)
        /\ g_history_count = 4
        /\ SameTurn(g_history[1], Turn("user", ChatText(c)))
        /\ SameTurn(g_history[2], Turn("assistant", ai[c]))
        /\ SameTurn(g_history[3], Turn("user", ChatText(d)))
        /\ SameTurn(g_history[4], Turn("assistant", ai[d]))
        /\ ChatText(c) # ChatText(d)

SetCalls == {"hal_brightness_set", "hal_volume_set", "hal_mute_set", "hal_wifi_set",
             "hal_bluetooth_set"}

\* the number of HAL set calls made for the request of connection c
NumSetCalls(c) == Cardinality({i \in 1..Len(calls[c]) : calls[c][i].fn \in SetCalls})

\* the intent that agent_chat extracts from the reply, if it is one with a
\* HAL set call
SetIntent(reply) ==
    LET frag == ExtractAction(reply)
    IN  /\ frag.t = "obj"
        /\ HasString(cJSON_GetObjectItem(frag, "action"))
        /\ cJSON_GetObjectItem(frag, "action").v \in {"brightness", "volume", "mute", "wifi",
                                                      "bluetooth"}
        /\ cJSON_GetObjectItem(frag, "action").v \in {"brightness", "volume"}
           => cJSON_GetObjectItem(frag, "level") # NoItem

\* C24: a chat request whose reply yields an intent with a HAL set call has
\* made exactly one HAL set call when it is answered, the one of the
\* dispatcher, whether the reply came from the fallback or from the provider.
C24_OneSetCallPerIntent ==
    \A c \in Conns :
        (ChatAnswered(c) /\ SetIntent(ai[c])) => NumSetCalls(c) = 1

\* the step of a relative adjustment: lines 328-329 and 341-342
Step(text) ==
    CASE text = <<"brightness", "up">> -> 20
      [] text = <<"brightness", "down">> -> -20
      [] text = <<"volume", "up">> -> 10
      [] text = <<"volume", "down">> -> -10

SetterOf(text) == IF text[1] = "brightness" THEN "hal_brightness_set" ELSE "hal_volume_set"

\* connection c has an answer to a relative adjustment made by the
\* fallback interpreter; its first HAL call is the read of the current level
RelativeAnswered(c) ==
    /\ ChatAnswered(c)
    /\ path[c] = "fallback"
    /\ ChatText(c) \in AdjustTexts

\* C25: a relative adjustment whose read of the current level succeeded
\* applies that level plus or minus the step, clamped to 0..100, to the
\* device: below the step a downward adjustment sets 0.
C25_RelativeStepClamped ==
    \A c \in Conns :
        (RelativeAnswered(c) /\ calls[c][1].ret >= 0)
        => /\ Len(calls[c]) >= 2
           /\ calls[c][2].fn = SetterOf(ChatText(c))
           /\ calls[c][2].arg = JNum(Clamp100(calls[c][1].ret + Step(ChatText(c))))

\* C29: a relative adjustment whose read of the current level failed (the
\* get call returned -1) makes no HAL set call, yields no intent and leaves
\* the reply without a JSON fragment.
C29_FailedReadSetsNothing ==
    \A c \in Conns :
        (RelativeAnswered(c) /\ calls[c][1].ret = -1)
        => /\ NumSetCalls(c) = 0
           /\ ExtractAction(ai[c]) = NoFrag

GetCalls == {"hal_brightness_get", "hal_volume_get", "hal_battery_get"}

\* the reply holds no intent that can be extracted: no brace-delimited
\* fragment, a fragment that is not JSON, or one without an action name
NoIntent(reply) ==
    LET frag == ExtractAction(reply)
    IN  \/ frag = NoFrag
        \/ frag = ParseFail
        \/ frag.t = "obj" /\ ~HasString(cJSON_GetObjectItem(frag, "action"))

\* C26: a chat whose reply holds no extractable intent is answered with
\* status ok and the reply text, makes no HAL call beyond the reads of the
\* fallback interpreter, and its response has no action_result.
C26_NoIntentNoActionResult ==
    \A c \in Conns :
        (ChatAnswered(c) /\ NoIntent(ai[c]))
        => /\ LastBody(c).v.status = JStr("ok")
           /\ LastBody(c).v.response.v = ai[c]
           /\ \A i \in 1..Len(calls[c]) : calls[c][i].fn \in GetCalls
           /\ "action_result" \notin DOMAIN LastBody(c).v

\* C27: a handler that has left its loop has closed its socket and holds no
\* buffer, whatever made it leave; a handler that waits for the next frame
\* holds no buffer of the requests it has served; a socket is closed only by
\* the handler that leaves its loop.
C27_BuffersReleased ==
    \A c \in Conns :
        /\ hpc[c] = "done" <=> conn[c] = "closed"
        /\ hpc[c] \in {"recv", "done"} => held[c] = {}

\* C28: a handler that serves an action command or a status command leaves
\* the conversation store as it is, turn for turn.
C28_ActionStatusKeepStore ==
    [][\A c \in Conns :
          (/\ hpc[c] = "dispatch"
           /\ Branch(req[c]) \in {"action", "status"}
           /\ hpc'[c] # "dispatch")
          => g_history' = g_history]_vars

\* a status command has been answered after a chat on the same connection,
\* and the store holds the earlier turns and those of the chat
C28_Witness ==
    \E c \in Conns :
        /\ Answered(c)
        /\ Branch(req[c]) = "status"
        /\ nread[c] = 2
        /\ sent[c][1].cmd = "chat"
        /\ g_history_count = 4

\* C30: while confirm_dangerous is set no shutdown and no reboot is
\* scheduled: the protocol has no request that confirms one, so with the flag
\* set no such command is ever started.
C30_NoUnconfirmedShutdown == g_config.confirm_dangerous => sys = <<>>

====
